---- MODULE Spec2Model ----
(***************************************************************************)
(* Model of the three notebook widgets of the repository:                  *)
(*   src/hf_datasets_gpt5/hf_top_datasets_ui.py       (impl "gpt5")        *)
(*   src/hf_datasets_qwen3/hf_datasets_explorer.py    (impl "qwen3")       *)
(*   src/hf_datasets_sonnet4/hf_datasets_viewer.py    (impl "sonnet4")     *)
(*                                                                         *)
(* Three specifications share the module:                                  *)
(*   SpecBB     the ButtonBox selection widget (all three files)           *)
(*   SpecCache  DatasetManager: query cache, stats cache, lru_cache        *)
(*   SpecFn     the pure list / filter / normalise functions               *)
(*                                                                         *)
(* Python's None is the empty sequence <<>>, a present value x is <<x>>.   *)
(***************************************************************************)
EXTENDS Integers, Sequences, FiniteSets, TLC

VARIABLES
    impl,       \* which of the three files the ButtonBox instance comes from
    buttons,    \* ButtonBox.buttons: sequence of button objects (identities)
    children,   \* ButtonBox.box.children
    style,      \* button object -> TRUE iff its style carries self.color
    position,   \* ButtonBox.position
    button,     \* ButtonBox.button: <<>> (None) or <<b>>
    nextId,     \* identity of the next Button object to be constructed
    lastBB,     \* history: the last ButtonBox call, its argument, the state before it
    now,        \* time.time() / datetime.now(), in seconds
    steps,      \* calls and clock advances made so far
    cache,      \* DatasetManager.cache: query key -> None or (cache_time, data)
    statsCache, \* DatasetManager._stats_cache: id -> None or (cache_time, stats)
    statsMemo,  \* the lru_cache around get_dataset_stats: id -> absent or the memoised return value
    infoMemo,   \* the lru_cache around cached_dataset_info (gpt5): id -> absent or the info
    lastC,      \* history: the last DatasetManager call and what it did
    call,       \* history: the last pure-function call, its arguments and its result
    ui,         \* the notebook UI around the ButtonBox: control values, what is shown
    lastUI,     \* history: the last UI event, what its handler fetched and raised
    run         \* the UI's thread of control: the handler in progress and the events waiting

bbVars == <<impl, buttons, children, style, position, button, nextId, lastBB>>
cacheVars == <<now, steps, cache, statsCache, statsMemo, infoMemo, lastC>>
fnVars == <<call>>
uiVars == <<ui, lastUI, run>>

vars == <<bbVars, cacheVars, fnVars, uiVars>>

(***************************************************************************)
(* Bounds                                                                  *)
(***************************************************************************)
MaxButtons == 4      \* Button objects constructed during one run
MaxInitial == 2      \* length of the description list given to __init__
MaxRefresh == 2      \* records shown by one list refresh

None == <<>>
Some(x) == <<x>>

Impls == {"gpt5", "qwen3", "sonnet4"}
ButtonIds == 1..MaxButtons

Range(s) == {s[i] : i \in 1..Len(s)}

(***************************************************************************)
(* ButtonBox                                                               *)
(***************************************************************************)
\* The object's fields as one record, the argument of the methods below.
Self == [buttons |-> buttons, children |-> children, style |-> style, position |-> position, button |-> button, raised |-> "none"]

\* Python truthiness of an Optional[int]: None and 0 are falsy.
Truthy(p) == p # None /\ p[1] # 0

\* [(i, but) for i, but in enumerate(self.buttons) if b == but], 0-based indices.
Matches(btns, b) == SelectSeq([i \in 1..Len(btns) |-> i - 1], LAMBDA i : btns[i + 1] = b)

\* A plausible bug: unselect() forgotten.
unselect_none(st, btns) == st

\* unselect(): every button of the current list loses its colour.
unselect(st, btns) == [x \in DOMAIN st |-> IF x \in Range(btns) THEN FALSE ELSE st[x]]

\* A plausible bug: the selection is reset before the clicked button is looked up.
clicker_reset_first(self, b) ==
    LET m == Matches(self.buttons, b)
    IN  IF m = <<>>
        THEN [self EXCEPT !.position = -1, !.button = None, !.style = unselect(self.style, self.buttons), !.raised = "IndexError"]
        ELSE [self EXCEPT !.position = m[1], !.button = Some(b), !.style = [unselect(self.style, self.buttons) EXCEPT ![b] = TRUE]]

\* _clicker(b): the right-hand side [...][0] is evaluated first and raises
\* IndexError when b is not in self.buttons, before anything is assigned.
_clicker(self, b) ==
    LET m == Matches(self.buttons, b)
    IN  IF m = <<>>
        THEN [self EXCEPT !.raised = "IndexError"]
        ELSE [self EXCEPT !.position = m[1], !.button = Some(self.buttons[m[1] + 1]), !.style = [unselect(self.style, self.buttons) EXCEPT ![self.buttons[m[1] + 1]] = TRUE]]

\* append(description, select): b is the freshly constructed Button.
append(self, b, select) ==
    LET s1 == [self EXCEPT !.buttons = Append(@, b), !.children = Append(@, b)]
    IN  IF select
        THEN _clicker([s1 EXCEPT !.button = Some(b), !.position = Len(s1.buttons) - 1], b)
        ELSE s1

\* The position remove() works on, None when it returns early.
\* gpt5 tests `position is None`; qwen3 and sonnet4 test `not position`.
removeTarget(im, self, arg) ==
    LET missing(p) == IF im = "gpt5" THEN p = None ELSE ~Truthy(p)
        p1 == IF missing(arg) THEN Some(self.position) ELSE arg
    IN  IF missing(p1) \/ ~(p1[1] < Len(self.buttons)) \/ p1[1] < 0 THEN None ELSE p1

\* s[:p] + s[p+1:] for 0 <= p < len(s)
DropAt(s, p) == SubSeq(s, 1, p) \o SubSeq(s, p + 2, Len(s))

\* A plausible bug: the button taken out of the list but not out of the container.
remove_children_kept(im, self, arg) ==
    LET t == removeTarget(im, self, arg)
    IN  IF t = None
        THEN self
        ELSE [self EXCEPT !.buttons = DropAt(@, t[1]), !.button = None, !.position = -1]

\* remove(position=None)
remove(im, self, arg) ==
    LET t == removeTarget(im, self, arg)
    IN  IF t = None
        THEN self
        ELSE [self EXCEPT !.children = DropAt(@, t[1]), !.buttons = DropAt(@, t[1]), !.button = None, !.position = -1]

\* A plausible bug: clear() empties the list and forgets the selection fields.
clear_list_only(self) == [self EXCEPT !.buttons = <<>>, !.children = <<>>]

\* clear() of the sonnet4 ButtonBox
clear(self) == [self EXCEPT !.buttons = <<>>, !.children = <<>>, !.button = None, !.position = -1]

RECURSIVE appendAll(_, _, _)
appendAll(self, first, n) == IF n = 0 THEN self ELSE appendAll(append(self, first, FALSE), first + 1, n - 1)

\* The list refresh as far as it touches the ButtonBox, n new records:
\*   gpt5    populate_buttons: children and buttons emptied, position and button kept
\*   qwen3   update_datasets:  children, buttons, position, button reset
\*   sonnet4 update_dataset_display: clear()
\* followed by append(..., select=False) for every record.
populate(im, self, first, n) ==
    LET emptied == CASE im = "gpt5" -> [self EXCEPT !.children = <<>>, !.buttons = <<>>]
                     [] im = "qwen3" -> [self EXCEPT !.children = <<>>, !.buttons = <<>>, !.position = -1, !.button = None]
                     [] OTHER -> clear(self)
    IN  appendAll(emptied, first, n)

(***************************************************************************)
(* Python helpers                                                          *)
(***************************************************************************)
\* s[:n]
Take(s, n) == SubSeq(s, 1, IF n < Len(s) THEN n ELSE Len(s))

Reverse(s) == [i \in 1..Len(s) |-> s[Len(s) + 1 - i]]

\* One keyed element inserted behind every element whose key is not larger:
\* the step of a stable ascending sort.
RECURSIVE InsertStable(_, _)
InsertStable(sorted, x) ==
    IF sorted = <<>> THEN <<x>>
    ELSE IF sorted[Len(sorted)].k <= x.k THEN Append(sorted, x)
    ELSE Append(InsertStable(SubSeq(sorted, 1, Len(sorted) - 1), x), sorted[Len(sorted)])

\* A stable ascending sort of keyed elements [k |-> key, v |-> element].
RECURSIVE SortAsc(_)
SortAsc(s) == IF s = <<>> THEN <<>> ELSE InsertStable(SortAsc(SubSeq(s, 1, Len(s) - 1)), s[Len(s)])

\* The sort key of _apply_filters: key=lambda x: x.<field of sort_by>
KeyOf(x, sort_by) ==
    CASE sort_by = "downloads" -> x.downloads
      [] sort_by = "likes" -> x.likes
      [] sort_by = "updated" -> x.updated_at[1]
      [] sort_by = "created" -> x.created_at[1]

Keyed(s, sort_by) == [i \in 1..Len(s) |-> [k |-> KeyOf(s[i], sort_by), v |-> s[i]]]

Unkeyed(s) == [i \in 1..Len(s) |-> s[i].v]

\* A plausible bug: descending order obtained by reversing an ascending sort.
sort_reverse_after(keyed) == Reverse(SortAsc(keyed))

\* list.sort(key=..., reverse=True): the list is reversed, sorted ascending by
\* a stable sort, and reversed again, which keeps equal keys in input order.
\* The argument is the list paired with its keys.
sort_reverse(keyed) == Reverse(SortAsc(Reverse(keyed)))

\* datasets.sort(key=lambda x: x.<field of sort_by>, reverse=True)
SortedDesc(s, sort_by) == Unkeyed(sort_reverse(Keyed(s, sort_by)))

Days(n) == n * 86400

(***************************************************************************)
(* DatasetManager (sonnet4)                                                *)
(***************************************************************************)
cache_timeout == 3600

\* A plausible bug: the `or datetime.now()` fallback of updated_at left out.
DatasetStats_no_default(id, info, t) ==
    [id |-> id,
     description |-> IF info.description = None THEN "" ELSE info.description[1],
     downloads |-> IF info.downloads = None \/ info.downloads = Some(0) THEN 0 ELSE info.downloads[1],
     likes |-> IF info.likes = None \/ info.likes = Some(0) THEN 0 ELSE info.likes[1],
     created_at |-> info.created_at,
     updated_at |-> info.last_modified,
     tags |-> IF info.tags = None THEN <<>> ELSE info.tags[1],
     file_count |-> info.siblings]

\* DatasetStats(...) as get_dataset_stats builds it from dataset_info's
\* answer at time t. Every `or` fallback of the source is kept: downloads,
\* likes, description, tags and last_modified fall back when None; created_at
\* has a default for a missing attribute only, and DatasetInfo always carries
\* the attribute, so a None passes through. siblings is None or the number
\* of files listed; file_count is its len().
DatasetStats(id, info, t) ==
    [id |-> id,
     description |-> IF info.description = None THEN "" ELSE info.description[1],
     downloads |-> IF info.downloads = None \/ info.downloads = Some(0) THEN 0 ELSE info.downloads[1],
     likes |-> IF info.likes = None \/ info.likes = Some(0) THEN 0 ELSE info.likes[1],
     created_at |-> info.created_at,
     updated_at |-> IF info.last_modified = None THEN Some(t) ELSE info.last_modified,
     tags |-> IF info.tags = None THEN <<>> ELSE info.tags[1],
     file_count |-> info.siblings]

\* len(getattr(info, 'siblings', [])) raises TypeError when the attribute is None.
DatasetStatsRaises(info) == info.siblings = None

\* The cutoff of _apply_filters for a time period other than 'all'; a period
\* outside 7d/30d/90d leaves cutoff_date = datetime.now().
Cutoff(time_period, t) ==
    CASE time_period = "7d" -> t - Days(7)
      [] time_period = "30d" -> t - Days(30)
      [] time_period = "90d" -> t - Days(90)
      [] OTHER -> t

\* _apply_filters(datasets, time_period, sort_by) at time t. The timestamps
\* compared here are present (the dataclass declares them datetime).
_apply_filters(datasets, time_period, sort_by, t) ==
    LET kept == IF time_period # "all"
                THEN SelectSeq(datasets, LAMBDA d : d.updated_at[1] >= Cutoff(time_period, t))
                ELSE datasets
    IN  CASE sort_by = "downloads" -> SortedDesc(kept, "downloads")
          [] sort_by = "likes" -> SortedDesc(kept, "likes")
          [] sort_by = "updated" -> SortedDesc(kept, "updated")
          [] sort_by = "created" -> SortedDesc(kept, "created")
          [] OTHER -> kept

\* The list object passed to _apply_filters, as its caller finds it after the
\* call. With a time period the comprehension binds `datasets` to a new list
\* and the passed one is not touched; with 'all' `datasets` still names the
\* passed list and datasets.sort(...) reorders it in place.
_apply_filters_argument(datasets, time_period, sort_by, t) ==
    IF time_period # "all" THEN datasets ELSE _apply_filters(datasets, time_period, sort_by, t)

\* TRUE when the list _apply_filters returns is the very object it was passed.
_apply_filters_returns_argument(time_period) == time_period = "all"

\* The manager's fields plus what one call did: the remote calls it made, whether
\* one of them raised, what it returned and what it raised to its caller.
Manager == [cache |-> cache, statsCache |-> statsCache, statsMemo |-> statsMemo, listCalls |-> 0, infoCalls |-> <<>>, remoteRaised |-> FALSE, hit |-> FALSE, result |-> None, raised |-> "none"]

\* The body of get_dataset_stats; remote is dataset_info's outcome for this
\* id should it be called: None when it raises, Some(info) otherwise.
get_dataset_stats_body(m, id, t, remote) ==
    IF m.statsCache[id] # None /\ t - m.statsCache[id][1].time < cache_timeout
    THEN [m EXCEPT !.result = Some(m.statsCache[id][1].stats)]
    ELSE IF remote = None
    THEN [m EXCEPT !.infoCalls = Append(@, id), !.remoteRaised = TRUE, !.result = None]
    ELSE IF DatasetStatsRaises(remote[1])
    THEN [m EXCEPT !.infoCalls = Append(@, id), !.result = None]
    ELSE LET stats == DatasetStats(id, remote[1], t)
         IN  [m EXCEPT !.infoCalls = Append(@, id), !.statsCache[id] = Some([time |-> t, stats |-> stats]), !.result = Some(stats)]

\* get_dataset_stats under @lru_cache(maxsize=100): a memoised return value,
\* None included, is returned without running the body. Fewer than 100 ids
\* are in use, so nothing is evicted.
get_dataset_stats(m, id, t, remote) ==
    IF m.statsMemo[id] # None
    THEN [m EXCEPT !.result = m.statsMemo[id][1]]
    ELSE LET r == get_dataset_stats_body(m, id, t, remote)
         IN  [r EXCEPT !.statsMemo[id] = Some(r.result)]


\* cache_key = f"{time_period}_{limit}_{sort_by}": the three values formatted
\* into one string, joined by underscores.
cache_key(q) == q.time_period \o "_" \o ToString(q.limit) \o "_" \o q.sort_by

\* The for loop of get_popular_datasets over the listed ids: it stops as soon
\* as `limit` records are collected; ids whose stats are None are skipped.
RECURSIVE collect(_, _, _, _, _, _)
collect(m, listing, limit, t, remote, acc) ==
    IF listing = <<>> \/ Len(acc) >= limit
    THEN [m |-> m, stats |-> acc]
    ELSE LET r == get_dataset_stats(m, Head(listing), t, remote[Head(listing)])
         IN  collect(r, Tail(listing), limit, t, remote, IF r.result # None THEN Append(acc, r.result[1]) ELSE acc)

\* get_popular_datasets(time_period, limit, sort_by) at time t. listed is the
\* outcome of list_datasets: kind "ok" (the first call answers), "fallback"
\* (list_datasets(limit=limit*3) raises, list_datasets() answers) or "raise"
\* (the listing raises, which the outer except turns into []).
get_popular_datasets(m, q, t, listed, remote) ==
    LET k == cache_key(q)
    IN  IF m.cache[k] # None /\ t - m.cache[k][1].time < cache_timeout
        THEN [m EXCEPT !.hit = TRUE, !.result = m.cache[k][1].data]
        ELSE IF listed.kind = "raise"
        THEN [m EXCEPT !.listCalls = 1, !.remoteRaised = TRUE, !.result = <<>>]
        ELSE LET c == collect(m, listed.list, q.limit, t, remote, <<>>)
                 filtered_stats == _apply_filters(c.stats, q.time_period, q.sort_by, t)
             IN  [c.m EXCEPT !.listCalls = IF listed.kind = "fallback" THEN 2 ELSE 1,
                             !.cache[k] = Some([time |-> t, data |-> Take(filtered_stats, q.limit)]),
                             !.result = Take(filtered_stats, q.limit)]

\* cached_dataset_info(repo_id) of gpt5 under @lru_cache(maxsize=2048): no
\* expiry; an exception of api.dataset_info propagates and is not memoised.
cached_dataset_info(memo, id, remote) ==
    IF memo[id] # None
    THEN [memo |-> memo, called |-> FALSE, result |-> memo[id], raised |-> "none"]
    ELSE IF remote = None
    THEN [memo |-> memo, called |-> TRUE, result |-> None, raised |-> "Exception"]
    ELSE [memo |-> [memo EXCEPT ![id] = remote], called |-> TRUE, result |-> remote, raised |-> "none"]

(***************************************************************************)
(* The remote catalog the DatasetManager specification runs against        *)
(***************************************************************************)
MaxSteps == 3        \* calls and clock advances in one run

Catalog ==
    <<[description |-> Some("text"), downloads |-> Some(100), likes |-> Some(9), created_at |-> Some(Days(10)), last_modified |-> Some(Days(99)), tags |-> Some(<< <<"n","l","p">> >>), siblings |-> Some(2)],
      [description |-> None, downloads |-> Some(500), likes |-> Some(3), created_at |-> Some(Days(20)), last_modified |-> Some(Days(50)), tags |-> None, siblings |-> Some(1)],
      [description |-> Some("text"), downloads |-> Some(500), likes |-> None, created_at |-> Some(Days(30)), last_modified |-> None, tags |-> Some(<< <<"N","L","P">>, <<"N","L","P">> >>), siblings |-> Some(0)]>>

Ids == DOMAIN Catalog

Queries == {[time_period |-> "all", limit |-> 1, sort_by |-> "downloads"], [time_period |-> "all", limit |-> 2, sort_by |-> "downloads"], [time_period |-> "7d", limit |-> 2, sort_by |-> "likes"]}

\* The queries the controls of FilterControls can express; limit 1 and 2
\* stand for the 25 / 50 / 100 of the radio buttons.
UIQueries == [time_period : {"all", "7d"}, limit : {1, 2}, sort_by : {"downloads", "likes"}]

Keys == {cache_key(q) : q \in Queries \cup UIQueries}

ListOutcomes == {[kind |-> "ok", list |-> <<1, 2, 3>>], [kind |-> "ok", list |-> <<2, 3, 1>>], [kind |-> "fallback", list |-> <<1, 2, 3>>], [kind |-> "raise", list |-> <<>>]}

\* dataset_info either answers for every id, or raises for id 2.
Remotes == {[id \in Ids |-> Some(Catalog[id])], [id \in Ids |-> IF id = 2 THEN None ELSE Some(Catalog[id])]}

ClockSteps == {1, cache_timeout, cache_timeout + 1}

(***************************************************************************)
(* Python strings and values (gpt5, qwen3)                                 *)
(*                                                                         *)
(* A Python str is the sequence of its characters. A Python value of       *)
(* unknown type is a record [k |-> kind, v |-> payload]: None, a str, an   *)
(* int (payload: its decimal digits), a list (payload: its elements) or a  *)
(* dict (payload: its values in insertion order).                          *)
(***************************************************************************)
UpperChars == <<"A", "B", "C", "D", "E", "F", "G", "H", "I", "J", "K", "L", "M", "N", "O", "P", "Q", "R", "S", "T", "U", "V", "W", "X", "Y", "Z">>
LowerChars == <<"a", "b", "c", "d", "e", "f", "g", "h", "i", "j", "k", "l", "m", "n", "o", "p", "q", "r", "s", "t", "u", "v", "w", "x", "y", "z">>

LowerChar(c) == IF \E i \in DOMAIN UpperChars : UpperChars[i] = c THEN LowerChars[CHOOSE i \in DOMAIN UpperChars : UpperChars[i] = c] ELSE c

\* A plausible bug: the lower-casing forgotten.
lower_identity(s) == s

\* str.lower()
lower(s) == [i \in 1..Len(s) |-> LowerChar(s[i])]

Whitespace == {" ", "\t", "\n"}

RECURSIVE lstrip(_)
lstrip(s) == IF s # <<>> /\ Head(s) \in Whitespace THEN lstrip(Tail(s)) ELSE s

\* str.strip()
strip(s) == Reverse(lstrip(Reverse(lstrip(s))))

\* a in b, for two strings
IsSubstring(a, b) == \E i \in 0..(Len(b) - Len(a)) : SubSeq(b, i + 1, i + Len(a)) = a

\* x in s, for a list s
InList(x, s) == \E i \in 1..Len(s) : s[i] = x

PyNone == [k |-> "none", v |-> <<>>]
PyStr(s) == [k |-> "str", v |-> s]
PyInt(digits) == [k |-> "int", v |-> digits]
PyList(xs) == [k |-> "list", v |-> xs]
PyDict(xs) == [k |-> "dict", v |-> xs]

\* bool(x)
PyTruthy(x) == CASE x.k = "none" -> FALSE [] x.k = "int" -> x.v # <<"0">> [] OTHER -> x.v # <<>>

\* a or b
PyOr(a, b) == IF PyTruthy(a) THEN a ELSE b

\* str(x) for the values that reach it here: a str, None or an int.
PyStrOf(x) == CASE x.k = "str" -> x.v [] x.k = "none" -> <<"N", "o", "n", "e">> [] OTHER -> x.v

\* list({*out}): the elements without repetition. Python leaves the order of
\* the result open; the order of first occurrence stands for it, and nothing
\* below reads the order.
RECURSIVE Dedup(_)
Dedup(out) == IF out = <<>> THEN <<>> ELSE LET d == Dedup(SubSeq(out, 1, Len(out) - 1)) IN IF InList(out[Len(out)], d) THEN d ELSE Append(d, out[Len(out)])

\* A plausible bug: a mapping contributes nothing (its values are not taken).
normalize_list_no_dict(val) == CASE val.k = "str" -> <<val>> [] val.k = "list" -> val.v [] OTHER -> <<>>

\* _normalize_list(val): the list of Python values val stands for.
_normalize_list(val) == CASE val.k = "none" -> <<>> [] val.k = "str" -> <<val>> [] val.k = "dict" -> val.v [] val.k = "list" -> val.v [] OTHER -> <<>>

\* What one element x of items adds to out in _lower_flatten.
FlattenOne(x) ==
    CASE x.k = "dict" -> [i \in 1..Len(SelectSeq(x.v, LAMBDA v : v.k = "str")) |-> lower(SelectSeq(x.v, LAMBDA v : v.k = "str")[i].v)]
      [] x.k = "list" -> [i \in 1..Len(x.v) |-> lower(PyStrOf(x.v[i]))]
      [] OTHER -> <<lower(PyStrOf(x))>>

RECURSIVE FlattenAll(_)
FlattenAll(items) == IF items = <<>> THEN <<>> ELSE FlattenOne(Head(items)) \o FlattenAll(Tail(items))

\* A plausible bug: the final list({*out}) forgotten.
lower_flatten_no_set(items) == FlattenAll(items)

\* _lower_flatten(items)
_lower_flatten(items) == Dedup(FlattenAll(items))

\* card or {} followed by .get(key): None for a missing card, an empty card
\* and a missing key.
CardGet(card, key) == IF card.k = "card" THEN card[key] ELSE PyNone

extract_tasks(card) == _lower_flatten(_normalize_list(PyOr(PyOr(CardGet(card, "task_categories"), CardGet(card, "task_ids")), CardGet(card, "tasks"))))

extract_languages(card) == _lower_flatten(_normalize_list(PyOr(PyOr(CardGet(card, "language"), CardGet(card, "languages")), CardGet(card, "langs"))))

build_dataset_record(info) ==
    [id |-> info.id, downloads |-> info.downloads, likes |-> info.likes, last_modified |-> info.lastModified,
     card |-> info.cardData, tasks |-> extract_tasks(info.cardData), languages |-> extract_languages(info.cardData),
     license |-> CardGet(info.cardData, "license")]

sAny == <<"A", "n", "y">>
sMulti == <<"m", "u", "l", "t", "i">>
sMultilingual == <<"m", "u", "l", "t", "i", "l", "i", "n", "g", "u", "a", "l">>

\* A plausible bug: >= 1 written for > 1.
IsMulti_any(languages) == Len(languages) >= 1 \/ InList(sMultilingual, languages)

\* len(rec['languages']) > 1 or 'multilingual' in rec['languages']
IsMulti(languages) == Len(languages) > 1 \/ InList(sMultilingual, languages)

\* A plausible bug: the search text looked for in the id only.
Keeps_id_only(rec, f) ==
    LET search == lower(strip(f.search_text))
    IN  /\ search # <<>> => IsSubstring(search, lower(rec.id))
        /\ f.task # sAny => InList(lower(f.task), rec.tasks)
        /\ f.language # sAny => IF f.language = sMulti THEN IsMulti(rec.languages) ELSE InList(lower(f.language), rec.languages)
        /\ f.require_license => PyTruthy(rec.license)
        /\ f.require_carddata => rec.card.k = "card"

\* The filter chain of list_all_time and list_trending for one record: TRUE
\* when no `continue` is taken. f holds the arguments of the call.
Keeps(rec, f) ==
    LET search == lower(strip(f.search_text))
        pretty == PyOr(CardGet(rec.card, "pretty_name"), PyStr(<<>>))
    IN  /\ search # <<>> => (IsSubstring(search, lower(rec.id)) \/ IsSubstring(search, lower(PyStrOf(pretty))))
        /\ f.task # sAny => InList(lower(f.task), rec.tasks)
        /\ f.language # sAny => IF f.language = sMulti THEN IsMulti(rec.languages) ELSE InList(lower(f.language), rec.languages)
        /\ f.require_license => PyTruthy(rec.license)
        /\ f.require_carddata => rec.card.k = "card"

\* The for loop shared by list_all_time and list_trending: a record that
\* passes is appended, and the loop breaks once len(records) >= limit. An
\* entry whose info is None (cached_dataset_info raised) is skipped.
RECURSIVE FilterLoop(_, _, _)
FilterLoop(infos, f, records) ==
    IF infos = <<>> THEN records
    ELSE IF Head(infos) = None THEN FilterLoop(Tail(infos), f, records)
    ELSE LET rec == build_dataset_record(Head(infos)[1])
         IN  IF ~Keeps(rec, f) THEN FilterLoop(Tail(infos), f, records)
             ELSE IF Len(records) + 1 >= f.limit THEN Append(records, rec)
             ELSE FilterLoop(Tail(infos), f, Append(records, rec))

\* list_all_time(...): lst is what api.list_datasets(sort='downloads',
\* direction=-1, limit=backend_limit, full=True) yields.
list_all_time(f, lst) == FilterLoop([i \in 1..Len(lst) |-> Some(lst[i])], f, <<>>)

\* list_trending(...): response is None when requests.get / raise_for_status /
\* json raises, else Some(data); every item of data carries the outcome of
\* cached_dataset_info for its id (None when that raises).
list_trending(f, response) ==
    IF response = None THEN <<>>
    ELSE LET data == response[1]
             withId == SelectSeq(data, LAMBDA item : PyTruthy(PyOr(PyOr(item.repoId, item.id), item.name)))
         IN  FilterLoop([i \in 1..Len(withId) |-> withId[i].info], f, <<>>)

(***************************************************************************)
(* fetch_datasets (qwen3)                                                  *)
(***************************************************************************)
\* cutoff_date of fetch_datasets, None when no date filter is applied.
CutoffDate(sort_by, date_filter, t) ==
    IF date_filter # None /\ sort_by \in {"last_modified", "created_at"}
    THEN CASE date_filter = Some("week") -> Some(t - Days(7))
           [] date_filter = Some("month") -> Some(t - Days(30))
           [] date_filter = Some("year") -> Some(t - Days(365))
           [] OTHER -> None
    ELSE None

\* fetch_datasets(sort_by, limit, date_filter) at time t; datasets_list is
\* what list_datasets(sort=sort_by, direction=-1, limit=limit, ...) yields.
fetch_datasets(sort_by, date_filter, datasets_list, t) ==
    LET cutoff_date == CutoffDate(sort_by, date_filter, t)
        date_attr == IF sort_by = "last_modified" THEN "last_modified" ELSE "created_at"
    IN  IF cutoff_date = None THEN datasets_list
        ELSE SelectSeq(datasets_list, LAMBDA ds : ds[date_attr] # None /\ ds[date_attr][1] > cutoff_date[1])

(***************************************************************************)
(* SpecBB: the ButtonBox                                                   *)
(***************************************************************************)
SetBB(r) ==
    /\ buttons' = r.buttons
    /\ children' = r.children
    /\ style' = r.style
    /\ position' = r.position
    /\ button' = r.button

\* The fields of a DatasetManager after __init__, and of the memoising decorators.
NoEntries == [id \in Ids |-> None]

InitBB ==
    /\ now = Days(100) /\ steps = 0 /\ cache = [k \in Keys |-> None]
    /\ statsCache = NoEntries /\ statsMemo = NoEntries /\ infoMemo = NoEntries
    /\ lastC = [op |-> "init"] /\ call = [fn |-> "none"]
    /\ impl \in Impls
    /\ \E n \in 0..MaxInitial :
        /\ buttons = [i \in 1..n |-> i]
        /\ children = [i \in 1..n |-> i]
        /\ nextId = n + 1
    /\ style = [b \in ButtonIds |-> FALSE]
    /\ position = -1
    /\ button = None
    /\ lastBB = [op |-> "init"]
    /\ ui = [started |-> FALSE] /\ lastUI = [op |-> "init"] /\ run = [pc |-> "off"]

\* A click event delivered to any Button object constructed so far: every one
\* of them has _clicker bound with on_click, also after it left the list.
Click ==
    \E b \in 1..(nextId - 1) :
        LET r == _clicker(Self, b)
        IN  /\ SetBB(r)
            /\ lastBB' = [op |-> "click", arg |-> None, b |-> b, pre |-> Self, raised |-> r.raised]
            /\ UNCHANGED <<uiVars, impl, nextId, cacheVars, fnVars>>

AppendButton ==
    /\ nextId <= MaxButtons
    /\ \E select \in BOOLEAN :
        LET r == append(Self, nextId, select)
        IN  /\ SetBB(r)
            /\ lastBB' = [op |-> IF select THEN "append_select" ELSE "append", arg |-> None, b |-> nextId, pre |-> Self, raised |-> r.raised]
    /\ nextId' = nextId + 1
    /\ UNCHANGED <<uiVars, impl, cacheVars, fnVars>>

Remove ==
    \E arg \in {None} \cup {Some(p) : p \in -1..MaxButtons} :
        LET r == remove(impl, Self, arg)
        IN  /\ SetBB(r)
            /\ lastBB' = [op |-> "remove", arg |-> arg, b |-> 0, pre |-> Self, raised |-> r.raised]
            /\ UNCHANGED <<uiVars, impl, nextId, cacheVars, fnVars>>

Clear ==
    /\ impl = "sonnet4"
    /\ SetBB(clear(Self))
    /\ lastBB' = [op |-> "clear", arg |-> None, b |-> 0, pre |-> Self, raised |-> "none"]
    /\ UNCHANGED <<uiVars, impl, nextId, cacheVars, fnVars>>

Populate ==
    \E n \in 0..MaxRefresh :
        /\ nextId + n - 1 <= MaxButtons
        /\ SetBB(populate(impl, Self, nextId, n))
        /\ lastBB' = [op |-> "populate", arg |-> Some(n), b |-> 0, pre |-> Self, raised |-> "none"]
        /\ nextId' = nextId + n
        /\ UNCHANGED <<uiVars, impl, cacheVars, fnVars>>

NextBB == Click \/ AppendButton \/ Remove \/ Clear \/ Populate

SpecBB == InitBB /\ [][NextBB]_vars

(***************************************************************************)
(* SpecCache: the DatasetManager and cached_dataset_info                   *)
(***************************************************************************)
Pre == [cache |-> cache, statsCache |-> statsCache, statsMemo |-> statsMemo, infoMemo |-> infoMemo]

SetManager(r) ==
    /\ cache' = r.cache
    /\ statsCache' = r.statsCache
    /\ statsMemo' = r.statsMemo

GetPopularDatasets ==
    /\ steps < MaxSteps
    /\ \E q \in Queries, listed \in ListOutcomes, remote \in Remotes :
        LET r == get_popular_datasets(Manager, q, now, listed, remote)
        IN  /\ SetManager(r)
            /\ lastC' = [op |-> "get_popular_datasets", q |-> Some(q), id |-> 0, at |-> now, pre |-> Pre,
                         hit |-> r.hit, listCalls |-> r.listCalls, infoCalls |-> r.infoCalls,
                         listing |-> IF r.listCalls > 0 /\ listed.kind # "raise" THEN Some(listed.list) ELSE None,
                         remoteRaised |-> r.remoteRaised, result |-> r.result, raised |-> r.raised]
    /\ steps' = steps + 1
    /\ UNCHANGED <<uiVars, now, infoMemo, bbVars, fnVars>>

GetDatasetStats ==
    /\ steps < MaxSteps
    /\ \E id \in Ids, remote \in Remotes :
        LET r == get_dataset_stats(Manager, id, now, remote[id])
        IN  /\ SetManager(r)
            /\ lastC' = [op |-> "get_dataset_stats", q |-> None, id |-> id, at |-> now, pre |-> Pre,
                         hit |-> r.infoCalls = <<>>, listCalls |-> 0, infoCalls |-> r.infoCalls, listing |-> None,
                         remoteRaised |-> r.remoteRaised, result |-> r.result, raised |-> r.raised]
    /\ steps' = steps + 1
    /\ UNCHANGED <<uiVars, now, infoMemo, bbVars, fnVars>>

CachedDatasetInfo ==
    /\ steps < MaxSteps
    /\ \E id \in Ids, remote \in Remotes :
        LET r == cached_dataset_info(infoMemo, id, remote[id])
        IN  /\ infoMemo' = r.memo
            /\ lastC' = [op |-> "cached_dataset_info", q |-> None, id |-> id, at |-> now, pre |-> Pre,
                         hit |-> ~r.called, listCalls |-> 0, infoCalls |-> IF r.called THEN <<id>> ELSE <<>>, listing |-> None,
                         remoteRaised |-> r.raised # "none", result |-> r.result, raised |-> r.raised]
    /\ steps' = steps + 1
    /\ UNCHANGED <<uiVars, now, cache, statsCache, statsMemo, bbVars, fnVars>>

\* Time passes between two calls.
Tick ==
    /\ steps < MaxSteps
    /\ \E d \in ClockSteps : now' = now + d
    /\ steps' = steps + 1
    /\ UNCHANGED <<uiVars, cache, statsCache, statsMemo, infoMemo, lastC, bbVars, fnVars>>

NextCache == GetPopularDatasets \/ GetDatasetStats \/ CachedDatasetInfo \/ Tick

InitCache ==
    /\ impl = "sonnet4" /\ buttons = <<>> /\ children = <<>> /\ style = [b \in ButtonIds |-> FALSE]
    /\ position = -1 /\ button = None /\ nextId = 1 /\ lastBB = [op |-> "init"]
    /\ call = [fn |-> "none"]
    /\ now = Days(100)
    /\ steps = 0
    /\ cache = [k \in Keys |-> None]
    /\ statsCache = NoEntries
    /\ statsMemo = NoEntries
    /\ infoMemo = NoEntries
    /\ lastC = [op |-> "init"]
    /\ ui = [started |-> FALSE] /\ lastUI = [op |-> "init"] /\ run = [pc |-> "off"]

SpecCache == InitCache /\ [][NextCache]_vars

(***************************************************************************)
(* SpecFn: the pure functions, each applied to inputs from bounded sets.    *)
(* A behaviour is one call: the functions keep no state between calls.     *)
(***************************************************************************)
MaxItems == 3        \* length of a listing handed to a list / filter function
MaxTags == 2         \* length of a raw tag list or mapping

SeqsUpTo(S, n) == UNION {[1..k -> S] : k \in 0..n}

\* The sequences of pairwise different elements of S, up to length n.
DistinctSeqsUpTo(S, n) == {q \in SeqsUpTo(S, n) : \A i, j \in 1..Len(q) : q[i] = q[j] => i = j}

wEn == <<"e", "n">>
wEN == <<"E", "N">>
wFr == <<"f", "r">>
wMultilingual == <<"M", "u", "l", "t", "i", "l", "i", "n", "g", "u", "a", "l">>
wTranslation == <<"T", "r", "a", "n", "s", "l", "a", "t", "i", "o", "n">>
wMit == <<"m", "i", "t">>

\* Raw values of a tag / language / task field.
TagElements == {PyStr(wEn), PyStr(wEN), PyStr(wFr), PyStr(wMultilingual), PyNone, PyInt(<<"7">>), PyList(<<PyStr(wEN), PyNone>>), PyDict(<<PyStr(wEN), PyInt(<<"7">>)>>)}

RawValues ==
    {PyNone, PyInt(<<"7">>), PyStr(<<>>), PyStr(wEn), PyStr(wEN), PyStr(wMultilingual)}
    \cup {PyList(xs) : xs \in SeqsUpTo(TagElements, MaxTags)}
    \cup {PyDict(xs) : xs \in SeqsUpTo(TagElements, MaxTags)}

FieldValues == {PyNone, PyStr(<<>>), PyStr(wEN), PyList(<<PyStr(wEn), PyStr(wFr)>>), PyDict(<<PyStr(wMultilingual)>>)}

NoCard == [k |-> "none"]
EmptyCard == [k |-> "empty"]
Card(language, languages, langs, task_categories, task_ids, tasks, pretty_name, license) ==
    [k |-> "card", language |-> language, languages |-> languages, langs |-> langs, task_categories |-> task_categories,
     task_ids |-> task_ids, tasks |-> tasks, pretty_name |-> pretty_name, license |-> license]

FieldCards == {NoCard, EmptyCard} \cup {Card(a, b, c, a, b, c, PyNone, PyNone) : a, b, c \in FieldValues}

Info(id, downloads, cardData) == [id |-> id, downloads |-> Some(downloads), likes |-> None, lastModified |-> None, cardData |-> cardData]

\* The dataset descriptions the list functions are run on.
InfoPool ==
    {Info(<<"a", "b">>, 900, Card(PyStr(wEN), PyNone, PyNone, PyList(<<PyStr(wTranslation)>>), PyNone, PyNone, PyNone, PyStr(wMit))),
     Info(<<"B", "c">>, 800, Card(PyNone, PyList(<<PyStr(wEn), PyStr(wFr)>>), PyNone, PyNone, PyDict(<<PyStr(wTranslation)>>), PyNone, PyStr(<<"A", "b">>), PyNone)),
     Info(<<"c">>, 700, Card(PyStr(wMultilingual), PyNone, PyNone, PyNone, PyNone, PyNone, PyNone, PyStr(wMit))),
     Info(<<"d">>, 600, Card(PyList(<<PyStr(wEn), PyStr(wEN)>>), PyNone, PyNone, PyNone, PyNone, PyNone, PyNone, PyNone)),
     Info(<<"e">>, 500, NoCard),
     Info(<<"f">>, 400, EmptyCard)}

\* Dataset descriptions with optional attributes missing, for build_dataset_record.
RawInfos ==
    [id : {<<"a", "b">>}, downloads : {None, Some(0), Some(900)}, likes : {None, Some(5)}, lastModified : {None, Some(Days(99))},
     cardData : {NoCard, EmptyCard, Card(PyStr(wEN), PyNone, PyNone, PyNone, PyNone, PyList(<<PyStr(wTranslation)>>), PyNone, PyStr(wMit)),
                 Card(PyNone, PyNone, PyNone, PyNone, PyNone, PyNone, PyNone, PyNone)}]

TrendingItem(info) == [repoId |-> PyStr(info.id), id |-> PyNone, name |-> PyNone, info |-> Some(info)]

\* Items of the trending response: three resolvable ones, one whose
\* cached_dataset_info raises, one that carries no id.
TrendingPool ==
    {TrendingItem(i) : i \in {x \in InfoPool : Len(x.id) = 2 \/ x.id = <<"d">>}}
    \cup {[repoId |-> PyNone, id |-> PyStr(<<"g">>), name |-> PyNone, info |-> None],
          [repoId |-> PyNone, id |-> PyNone, name |-> PyStr(<<>>), info |-> Some(Info(<<"c">>, 700, NoCard))]}

Filters ==
    [limit : 1..MaxItems, search_text : {<<>>, <<" ", "A", "b">>}, task : {sAny, wTranslation},
     language : {sAny, sMulti, wEN}, require_license : BOOLEAN, require_carddata : BOOLEAN]
    \cup [limit : 1..MaxItems, search_text : {<<" ">>}, task : {sAny, wTranslation}, language : {sAny}, require_license : {FALSE}, require_carddata : {FALSE}]
    \cup [limit : {0}, search_text : {<<>>, <<" ">>, <<" ", "A", "b">>}, task : {sAny}, language : {sAny}, require_license : {FALSE}, require_carddata : BOOLEAN]

\* DatasetStats values handed to _apply_filters: the record with id i is the
\* i-th element, its other fields come from one of these.
Profiles ==
    {[description |-> "", downloads |-> 100, likes |-> 9, created_at |-> Some(Days(10)), updated_at |-> Some(Days(99)), tags |-> <<>>],
     [description |-> "", downloads |-> 500, likes |-> 3, created_at |-> Some(Days(10)), updated_at |-> Some(Days(80)), tags |-> <<>>],
     [description |-> "", downloads |-> 500, likes |-> 9, created_at |-> Some(Days(30)), updated_at |-> Some(Days(99)), tags |-> <<>>],
     [description |-> "", downloads |-> 100, likes |-> 3, created_at |-> Some(Days(30)), updated_at |-> Some(Days(5)), tags |-> <<>>]}

StatsLists == {[i \in 1..Len(ps) |-> [id |-> i] @@ ps[i]] : ps \in SeqsUpTo(Profiles, MaxItems)}

\* What dataset_info answers for one dataset (sonnet4).
HubInfos ==
    [description : {None, Some("text")}, downloads : {None, Some(0), Some(100)}, likes : {None, Some(9)},
     created_at : {None, Some(Days(10))}, last_modified : {None, Some(Days(99))},
     tags : {None, Some(<<>>), Some(<<wEn>>), Some(<<wEN, wEN>>)}, siblings : {None, Some(0), Some(2)}]

\* What list_datasets answers for one dataset (qwen3).
HubDates == [last_modified : {None, Some(Days(99)), Some(Days(60))}, created_at : {Some(Days(98)), Some(Days(1))}]

HubListings == {[i \in 1..Len(ds) |-> [id |-> i] @@ ds[i]] : ds \in SeqsUpTo(HubDates, MaxItems)}

InitFn ==
    /\ impl = "gpt5" /\ buttons = <<>> /\ children = <<>> /\ style = [b \in ButtonIds |-> FALSE]
    /\ position = -1 /\ button = None /\ nextId = 1 /\ lastBB = [op |-> "init"]
    /\ now = Days(100) /\ steps = 0 /\ cache = [k \in Keys |-> None]
    /\ statsCache = NoEntries /\ statsMemo = NoEntries /\ infoMemo = NoEntries
    /\ lastC = [op |-> "init"]
    /\ call = [fn |-> "none"]
    /\ ui = [started |-> FALSE] /\ lastUI = [op |-> "init"] /\ run = [pc |-> "off"]

NormalizeValue ==
    /\ call.fn = "none"
    /\ \E val \in RawValues : call' = [fn |-> "_lower_flatten", in |-> val, out |-> _lower_flatten(_normalize_list(val))]
    /\ UNCHANGED <<uiVars, bbVars, cacheVars>>

ExtractLanguages ==
    /\ call.fn = "none"
    /\ \E card \in FieldCards : call' = [fn |-> "extract_languages", in |-> card, out |-> extract_languages(card)]
    /\ UNCHANGED <<uiVars, bbVars, cacheVars>>

ExtractTasks ==
    /\ call.fn = "none"
    /\ \E card \in FieldCards : call' = [fn |-> "extract_tasks", in |-> card, out |-> extract_tasks(card)]
    /\ UNCHANGED <<uiVars, bbVars, cacheVars>>

MakeDatasetStats ==
    /\ call.fn = "none"
    /\ \E info \in HubInfos :
        call' = IF DatasetStatsRaises(info)
                THEN [fn |-> "DatasetStats raised", in |-> info, out |-> "TypeError"]
                ELSE [fn |-> "DatasetStats", in |-> info, out |-> DatasetStats(1, info, now)]
    /\ UNCHANGED <<uiVars, bbVars, cacheVars>>

\* The arguments get_popular_datasets takes: str, int, str, none of them
\* checked against the controls' options.
KeyQueries == [time_period : {"all", "7d", "7d_5"}, limit : {1, 5}, sort_by : {"downloads", "likes", "x", "1_x"}]

CacheKey ==
    /\ call.fn = "none"
    /\ \E q1 \in KeyQueries, q2 \in KeyQueries : call' = [fn |-> "cache_key", in |-> <<q1, q2>>, out |-> <<cache_key(q1), cache_key(q2)>>]
    /\ UNCHANGED <<uiVars, bbVars, cacheVars>>

BuildDatasetRecord ==
    /\ call.fn = "none"
    /\ \E info \in RawInfos : call' = [fn |-> "build_dataset_record", in |-> info, out |-> build_dataset_record(info)]
    /\ UNCHANGED <<uiVars, bbVars, cacheVars>>

ListAllTime ==
    /\ call.fn = "none"
    /\ \E f \in Filters, lst \in DistinctSeqsUpTo(InfoPool, MaxItems) :
        call' = [fn |-> "list_all_time", in |-> [f |-> f, lst |-> lst], out |-> list_all_time(f, lst), raised |-> "none"]
    /\ UNCHANGED <<uiVars, bbVars, cacheVars>>

ListTrending ==
    /\ call.fn = "none"
    /\ \E f \in Filters, response \in {None} \cup {Some(data) : data \in DistinctSeqsUpTo(TrendingPool, MaxItems)} :
        call' = [fn |-> "list_trending", in |-> [f |-> f, response |-> response], out |-> list_trending(f, response), raised |-> "none"]
    /\ UNCHANGED <<uiVars, bbVars, cacheVars>>

ApplyFilters ==
    /\ call.fn = "none"
    /\ \E datasets \in StatsLists, time_period \in {"all", "7d", "30d", "90d", "1y"}, sort_by \in {"downloads", "likes", "updated", "created", "name"} :
        call' = [fn |-> "_apply_filters", in |-> [datasets |-> datasets, time_period |-> time_period, sort_by |-> sort_by],
                 out |-> _apply_filters(datasets, time_period, sort_by, now),
                 argument |-> _apply_filters_argument(datasets, time_period, sort_by, now),
                 same_object |-> _apply_filters_returns_argument(time_period), raised |-> "none"]
    /\ UNCHANGED <<uiVars, bbVars, cacheVars>>

FetchDatasets ==
    /\ call.fn = "none"
    /\ \E sort_by \in {"downloads", "trending_score", "last_modified", "created_at"}, date_filter \in {None, Some("week"), Some("month"), Some("year")}, listing \in HubListings :
        call' = [fn |-> "fetch_datasets", in |-> [sort_by |-> sort_by, date_filter |-> date_filter, listing |-> listing],
                 out |-> fetch_datasets(sort_by, date_filter, listing, now)]
    /\ UNCHANGED <<uiVars, bbVars, cacheVars>>

NextFn == CacheKey \/ NormalizeValue \/ ExtractLanguages \/ ExtractTasks \/ MakeDatasetStats \/ BuildDatasetRecord \/ ListAllTime \/ ListTrending \/ ApplyFilters \/ FetchDatasets

SpecFn == InitFn /\ [][NextFn]_vars

(***************************************************************************)
(* SpecUI: the notebook UI around the ButtonBox                            *)
(*   gpt5    render_ui: refresh, populate_buttons, on_select               *)
(*   qwen3   create_dataset_explorer: update_datasets, show_dataset_details*)
(*   sonnet4 FilterControls and DatasetViewer                              *)
(* A handler runs to completion before the next event is delivered: the    *)
(* widget callbacks run one after the other on the kernel's thread.        *)
(* cached_dataset_info's memo is left out here: the hub's answer for an id *)
(* does not change during a run, so a memoised answer and a fetched one    *)
(* coincide.                                                               *)
(***************************************************************************)
\* The values a control can take. limit 1 and 2 stand for the slider and
\* radio button values, every other value is one of the widget's options.
ControlValues(im) ==
    CASE im = "gpt5" -> [metric |-> {"All-time downloads", "Trending (week)"}, limit |-> {1, 2}, search |-> {<<>>, <<" ", "A", "b">>},
                         task |-> {sAny, wTranslation}, lang |-> {sAny, sMulti}, require_license |-> BOOLEAN, require_card |-> BOOLEAN]
      [] im = "qwen3" -> [sort_by |-> {"downloads", "last_modified"}, date_filter |-> {None, Some("week")}, limit |-> {1, 2}]
      [] OTHER -> [time_period |-> {"all", "7d"}, limit |-> {1, 2}, sort_by |-> {"downloads", "likes"}]

\* The values the controls are constructed with.
InitialControls(im) ==
    CASE im = "gpt5" -> [metric |-> "All-time downloads", limit |-> 2, search |-> <<>>, task |-> sAny, lang |-> sAny, require_license |-> FALSE, require_card |-> FALSE]
      [] im = "qwen3" -> [sort_by |-> "downloads", date_filter |-> None, limit |-> 2]
      [] OTHER -> [time_period |-> "all", limit |-> 2, sort_by |-> "downloads"]

\* The UI as constructed, before the initial load that ends the construction.
\*   status   gpt5 status.value, qwen3 output_area, sonnet4 loading_indicator
\*   details  gpt5 details.value, sonnet4 details_panel.value
\*   current  ids of gpt5 _current_records / sonnet4 current_datasets / the
\*            datasets qwen3 made buttons for
\*   tooltip  Button -> the dataset id it carries (tooltip, dataset_id)
\*   shownFor history: the control values the listed datasets were fetched for
InitialUI(im) ==
    [started |-> FALSE, controls |-> InitialControls(im), status |-> "", details |-> IF im = "gpt5" THEN "select" ELSE IF im = "sonnet4" THEN "waiting" ELSE "",
     refresh_disabled |-> FALSE, current |-> <<>>, tooltip |-> [b \in ButtonIds |-> None], shownFor |-> None]

\* What the hub lists for gpt5's list_all_time and its trending request.
InfoById(id) == CHOOSE x \in InfoPool : x.id = id
UIListing == <<InfoById(<<"a", "b">>), InfoById(<<"B", "c">>), InfoById(<<"c">>)>>
UITrending == <<TrendingItem(InfoById(<<"B", "c">>)), TrendingItem(InfoById(<<"a", "b">>))>>

\* What the hub lists for qwen3's list_datasets.
QwenHub ==
    <<[id |-> 1, last_modified |-> Some(Days(99)), created_at |-> Some(Days(98))],
      [id |-> 2, last_modified |-> Some(Days(60)), created_at |-> Some(Days(1))],
      [id |-> 3, last_modified |-> None, created_at |-> Some(Days(98))]>>

\* The Button objects n calls of Button(...) create: objects that did not
\* exist before, so none that self.button still refers to. An object nothing
\* refers to any more gives its identity back.
FreshIds(self, n) ==
    LET free == ButtonIds \ (IF self.button = None THEN {} ELSE {self.button[1]})
    IN  [i \in 1..n |-> CHOOSE x \in free : Cardinality({y \in free : y < x}) = i - 1]

RECURSIVE appendEach(_, _)
appendEach(self, ids) == IF ids = <<>> THEN self ELSE appendEach(append(self, Head(ids), FALSE), Tail(ids))

\* The list refresh of the three UIs on the ButtonBox, for n records: the
\* list is emptied as in populate, then append(..., select=False) is called
\* with a new Button for every record.
repopulate(im, self, n) ==
    LET emptied == populate(im, self, 1, 0)
        ids == FreshIds(emptied, n)
    IN  appendEach([emptied EXCEPT !.style = [b \in ButtonIds |-> IF b \in Range(ids) THEN FALSE ELSE emptied.style[b]]], ids)

\* The tooltips after the buttons of bb were made for the datasets ids.
Tooltips(u, bb, ids) == [b \in ButtonIds |-> IF b \in Range(bb.buttons) THEN Some(ids[CHOOSE i \in 1..Len(bb.buttons) : bb.buttons[i] = b]) ELSE u.tooltip[b]]

\* What a handler leaves behind: the UI, the ButtonBox, the manager, the
\* number of fetches it started, whether one failed as a whole, and the
\* exception that left the handler ("none" when it returned).
Handled(u, bb, m, fetches, fetchFailed, escaped) == [ui |-> u, bb |-> bb, m |-> m, fetches |-> fetches, fetchFailed |-> fetchFailed, escaped |-> escaped]

\* The arguments refresh hands to list_all_time / list_trending.
FilterArgs(c) == [limit |-> c.limit, search_text |-> c.search, task |-> c.task, language |-> c.lang, require_license |-> c.require_license, require_carddata |-> c.require_card]

\* refresh() of gpt5. out is the hub's behaviour: "ok" or "raise". An
\* exception of list_all_time (api.list_datasets) is not caught: it leaves
\* refresh after status was set to 'Loading…'. list_trending answers [] when
\* its request fails.
refresh(u, self, m, out) ==
    LET c == u.controls
        records == IF c.metric = "All-time downloads" THEN list_all_time(FilterArgs(c), UIListing) ELSE list_trending(FilterArgs(c), IF out = "raise" THEN None ELSE Some(UITrending))
        ids == [i \in 1..Len(records) |-> records[i].id]
        bb == repopulate("gpt5", self, Len(records))
    IN  IF c.metric = "All-time downloads" /\ out = "raise"
        THEN Handled([u EXCEPT !.status = "loading", !.details = ""], self, m, 1, TRUE, "Exception")
        ELSE Handled([u EXCEPT !.status = "showing", !.details = "", !.current = ids, !.tooltip = Tooltips(u, bb, ids), !.shownFor = Some(c)], bb, m, 1, out = "raise", "none")

\* on_select(bbox) of gpt5: the record of the button's tooltip is looked up
\* in _current_records, and fetched with cached_dataset_info when it is not
\* there; every exception is caught and shown in details.
on_select(u, self, m, out) ==
    LET ds_id == u.tooltip[self.button[1]]
    IN  IF ds_id # None /\ InList(ds_id[1], u.current)
        THEN Handled([u EXCEPT !.details = "details"], self, m, 0, FALSE, "none")
        ELSE IF out = "raise"
        THEN Handled([u EXCEPT !.details = "error"], self, m, 1, TRUE, "none")
        ELSE Handled([u EXCEPT !.details = "details"], self, m, 1, FALSE, "none")

\* update_datasets(sort_by=None, date_filter=None, limit=None) of qwen3: an
\* argument that is None (or falsy) is replaced by the control's value.
update_datasets(u, self, m, arg, out, t) ==
    LET c == u.controls
        sort_by == IF arg.sort_by # None THEN arg.sort_by[1] ELSE c.sort_by
        limit == IF arg.limit # None /\ arg.limit[1] # 0 THEN arg.limit[1] ELSE c.limit
        date_filter == IF arg.date_filter # None THEN arg.date_filter ELSE c.date_filter
        datasets == fetch_datasets(sort_by, date_filter, Take(QwenHub, limit), t)
        ids == [i \in 1..Len(datasets) |-> datasets[i].id]
        bb == repopulate("qwen3", self, Len(datasets))
    IN  IF out = "raise"
        THEN Handled([u EXCEPT !.status = "error"], self, m, 1, TRUE, "none")
        ELSE Handled([u EXCEPT !.status = "showing", !.current = ids, !.tooltip = Tooltips(u, bb, ids),
                               !.shownFor = Some([sort_by |-> sort_by, date_filter |-> date_filter, limit |-> limit])], bb, m, 1, FALSE, "none")

\* show_dataset_details(bbox) of qwen3: the listing is fetched again, without
\* date filter, and searched for the button's dataset.
show_dataset_details(u, self, m, out, t) ==
    LET dataset_id == u.tooltip[self.button[1]]
        datasets == fetch_datasets(u.controls.sort_by, None, Take(QwenHub, u.controls.limit), t)
    IN  IF out = "raise"
        THEN Handled([u EXCEPT !.status = "error"], self, m, 1, TRUE, "none")
        ELSE IF \E i \in 1..Len(datasets) : Some(datasets[i].id) = dataset_id
        THEN Handled([u EXCEPT !.status = "details"], self, m, 1, FALSE, "none")
        ELSE Handled([u EXCEPT !.status = "notfound"], self, m, 1, FALSE, "none")

\* A plausible bug: set_loading changes the indicator and leaves the button alone.
set_loading_indicator_only(u, loading) == [u EXCEPT !.status = IF loading THEN "loading" ELSE "ready"]

\* FilterControls.set_loading(loading): the indicator shows 'Loading...' or
\* 'Ready', and refresh_btn.disabled is set to loading.
set_loading(u, loading) == [u EXCEPT !.status = IF loading THEN "loading" ELSE "ready", !.refresh_disabled = loading]

\* update_dataset_display() of sonnet4 for the datasets in current_datasets.
update_dataset_display(u, self, ids) ==
    LET bb == repopulate("sonnet4", self, Len(ids))
    IN  IF ids = <<>>
        THEN [ui |-> [u EXCEPT !.details = "nodatasets"], bb |-> clear(self)]
        ELSE [ui |-> [u EXCEPT !.details = "loaded", !.tooltip = Tooltips(u, bb, ids)], bb |-> bb]

\* refresh_datasets(filter_values) of sonnet4: set_loading(True), clear(),
\* get_popular_datasets (which raises nothing), update_dataset_display, and
\* set_loading(False) in the finally clause.
refresh_datasets(u, self, m, filter_values, listed, remote, t) ==
    LET r == get_popular_datasets(m, filter_values, t, listed, remote)
        ids == [i \in 1..Len(r.result) |-> r.result[i].id]
        d == update_dataset_display([u EXCEPT !.details = "loading", !.current = ids, !.shownFor = Some(filter_values)], clear(self), ids)
    IN  Handled(set_loading(d.ui, FALSE), d.bb, r, r.listCalls, r.listCalls > 0 /\ listed.kind = "raise", "none")

\* refresh_datasets up to the call of get_popular_datasets: set_loading(True),
\* clear() and the 'Loading Datasets' panel.
refresh_datasets_entry(u, self) == [ui |-> [set_loading(u, TRUE) EXCEPT !.details = "loading"], bb |-> clear(self)]

\* A plausible bug: set_loading(False) at the end of the try body instead of
\* in a finally clause, so that the except branch leaves without it.
refresh_datasets_display_raises_no_finally(u, self, m, filter_values, listed, remote, t) ==
    LET r == get_popular_datasets(m, filter_values, t, listed, remote)
        ids == [i \in 1..Len(r.result) |-> r.result[i].id]
    IN  Handled([u EXCEPT !.details = "error", !.current = ids, !.shownFor = None], clear(self), r, r.listCalls, r.listCalls > 0 /\ listed.kind = "raise", "none")

\* refresh_datasets when update_dataset_display raises while it formats the
\* first dataset (after its clear(), before any append): current_datasets
\* is set, the except branch shows the error panel and the finally clause
\* runs set_loading(False).
refresh_datasets_display_raises(u, self, m, filter_values, listed, remote, t) ==
    LET r == get_popular_datasets(m, filter_values, t, listed, remote)
        ids == [i \in 1..Len(r.result) |-> r.result[i].id]
    IN  Handled(set_loading([u EXCEPT !.details = "error", !.current = ids, !.shownFor = None], FALSE), clear(self), r, r.listCalls, r.listCalls > 0 /\ listed.kind = "raise", "none")

\* on_filters_changed(filter_values, force_refresh=False) of sonnet4:
\* filter_values is get_filter_values(), the controls' current values.
on_filters_changed(u, self, m, force_refresh, listed, remote, t) ==
    IF force_refresh \/ u.current = <<>>
    THEN refresh_datasets(u, self, m, u.controls, listed, remote, t)
    ELSE Handled(u, self, m, 0, FALSE, "none")

\* on_dataset_selected(buttonbox) of sonnet4: no fetch is made.
on_dataset_selected(u, self, m) ==
    IF self.button # None /\ u.tooltip[self.button[1]] # None /\ InList(u.tooltip[self.button[1]][1], u.current)
    THEN Handled([u EXCEPT !.details = "details"], self, m, 0, FALSE, "none")
    ELSE Handled(u, self, m, 0, FALSE, "none")

\* The hub's behaviour during one handler.
HubOutcomes == {"ok", "raise"}

NoArg == [sort_by |-> None, date_filter |-> None, limit |-> None]

\* The handler the three UIs run for a click on the refresh button.
OnRefresh(im, u, self, m, out, listed, remote, t) ==
    CASE im = "gpt5" -> refresh(u, self, m, out)
      [] im = "qwen3" -> update_datasets(u, self, m, NoArg, out, t)
      [] OTHER -> on_filters_changed(u, self, m, TRUE, listed, remote, t)

\* The handler for a change of control name to value v (change['new']); the
\* control holds the new value when its observers run.
OnChange(im, u, self, m, name, v, out, listed, remote, t) ==
    CASE im = "gpt5" -> refresh(u, self, m, out)
      [] im = "qwen3" -> update_datasets(u, self, m, [NoArg EXCEPT ![name] = IF name = "date_filter" THEN v ELSE Some(v)], out, t)
      [] OTHER -> on_filters_changed(u, self, m, FALSE, listed, remote, t)

\* The callback _clicker fires after it selected the clicked button.
OnSelect(im, u, self, m, out, t) ==
    CASE im = "gpt5" -> on_select(u, self, m, out)
      [] im = "qwen3" -> show_dataset_details(u, self, m, out, t)
      [] OTHER -> on_dataset_selected(u, self, m)

\* The initial load that ends the construction.
OnStart(im, u, self, m, out, listed, remote, t) ==
    CASE im = "gpt5" -> refresh(u, self, m, out)
      [] im = "qwen3" -> update_datasets(u, self, m, NoArg, out, t)
      [] OTHER -> refresh_datasets(u, self, m, u.controls, listed, remote, t)

SetUI(h, op, name) ==
    /\ ui' = h.ui
    /\ SetBB(h.bb)
    /\ SetManager(h.m)
    /\ lastUI' = [op |-> op, name |-> name, pre |-> ui, preBB |-> Self, fetches |-> h.fetches, fetchFailed |-> h.fetchFailed, escaped |-> h.escaped]
    /\ steps' = steps + 1
    /\ UNCHANGED <<impl, nextId, lastBB, now, infoMemo, lastC, fnVars>>

UIStart ==
    /\ ~ui.started
    /\ steps < MaxSteps
    /\ \E out \in HubOutcomes, listed \in ListOutcomes, remote \in Remotes :
        SetUI(OnStart(impl, [ui EXCEPT !.started = TRUE], Self, Manager, out, listed, remote, now), "start", "") /\ UNCHANGED run

UIRefreshClick ==
    /\ ui.started
    /\ ~ui.refresh_disabled
    /\ steps < MaxSteps
    /\ \E out \in HubOutcomes, listed \in ListOutcomes, remote \in Remotes :
        SetUI(OnRefresh(impl, ui, Self, Manager, out, listed, remote, now), "refresh", "") /\ UNCHANGED run

UIFilterChange ==
    /\ ui.started
    /\ steps < MaxSteps
    /\ \E name \in DOMAIN ControlValues(impl) : \E v \in ControlValues(impl)[name] \ {ui.controls[name]} :
        \E out \in HubOutcomes, listed \in ListOutcomes, remote \in Remotes :
            SetUI(OnChange(impl, [ui EXCEPT !.controls[name] = v], Self, Manager, name, v, out, listed, remote, now), "change", name) /\ UNCHANGED run

\* A click on one of the displayed buttons: _clicker, then the callback.
UISelect ==
    /\ ui.started
    /\ steps < MaxSteps
    /\ \E b \in Range(buttons), out \in HubOutcomes :
        LET r == _clicker(Self, b)
        IN  /\ r.raised = "none"
            /\ SetUI(OnSelect(impl, ui, r, Manager, out, now), "select", "") /\ UNCHANGED run

UITick ==
    /\ ui.started
    /\ steps < MaxSteps
    /\ \E d \in ClockSteps : now' = now + d
    /\ steps' = steps + 1
    /\ UNCHANGED <<uiVars, bbVars, cache, statsCache, statsMemo, infoMemo, lastC, fnVars>>

NextUI == UIStart \/ UIRefreshClick \/ UIFilterChange \/ UISelect \/ UITick

InitUI ==
    /\ impl \in Impls
    /\ buttons = <<>> /\ children = <<>> /\ style = [b \in ButtonIds |-> FALSE]
    /\ position = -1 /\ button = None /\ nextId = 1 /\ lastBB = [op |-> "init"]
    /\ now = Days(100) /\ steps = 0 /\ cache = [k \in Keys |-> None]
    /\ statsCache = NoEntries /\ statsMemo = NoEntries /\ infoMemo = NoEntries
    /\ lastC = [op |-> "init"]
    /\ call = [fn |-> "none"]
    /\ ui = InitialUI(impl)
    /\ lastUI = [op |-> "init"]
    /\ run = [pc |-> "off"]

SpecUI == InitUI /\ [][NextUI]_vars

(***************************************************************************)
(* SpecRun: the UI handlers with their fetch in flight                     *)
(* The handlers are plain functions that block in the remote call; the     *)
(* kernel's one thread calls them, so an event of the front end waits in   *)
(* the kernel's queue until the handler in progress has returned. run.pc   *)
(* is "fetching" between a handler's entry and the return of its remote    *)
(* call; run.queue holds the events that wait; run.ev is the event whose   *)
(* handler runs; run.late records that an event arrived during a fetch.    *)
(***************************************************************************)
MaxEvents == 3

\* The events of the run so far: handled, in progress and waiting.
Events(r, n) == n + Len(r.queue) + (IF r.pc = "fetching" THEN 1 ELSE 0)

\* An event that carries no value: the initial load, a click on refresh.
Event(kind) == [kind |-> kind, name |-> "", v |-> 0]

\* The values of a control, numbered: a change event carries the number of
\* the new value.
RECURSIVE Nth(_, _)
Nth(S, i) == IF i = 1 THEN CHOOSE x \in S : TRUE ELSE Nth(S \ {CHOOSE x \in S : TRUE}, i - 1)

NewValue(im, ev) == Nth(ControlValues(im)[ev.name], ev.v)

\* TRUE when the handler for ev goes on to a remote call: refresh (gpt5) and
\* update_datasets (qwen3) always do, on_filters_changed (sonnet4) does when
\* forced or when no datasets are held.
Starts(im, u, ev) == im # "sonnet4" \/ ev.kind \in {"start", "refresh"} \/ u.current = <<>>

\* What a handler has done when it blocks in its remote call.
InFlight(im, u, self) ==
    CASE im = "gpt5" -> [ui |-> [u EXCEPT !.status = "loading"], bb |-> self]
      [] im = "qwen3" -> [ui |-> [u EXCEPT !.status = "fetching"], bb |-> self]
      [] OTHER -> refresh_datasets_entry(u, self)

\* The widgets are on the page: gpt5 displays them before its initial load,
\* qwen3 and sonnet4 after it.
Displayed(im, u, r) == u.started /\ (im = "gpt5" \/ ~(r.pc = "fetching" /\ r.ev.kind = "start"))

\* The front end sends a click on the refresh button (not while it shows the
\* button disabled) or a new value of a control.
RunTrigger ==
    /\ Displayed(impl, ui, run)
    /\ Events(run, steps) < MaxEvents
    /\ \/ ~ui.refresh_disabled /\ run' = [run EXCEPT !.queue = Append(@, Event("refresh")), !.late = @ \/ run.pc = "fetching"]
       \/ \E name \in DOMAIN ControlValues(impl) : \E i \in 1..Cardinality(ControlValues(impl)[name]) :
            run' = [run EXCEPT !.queue = Append(@, [kind |-> "change", name |-> name, v |-> i]), !.late = @ \/ run.pc = "fetching"]
    /\ UNCHANGED <<ui, lastUI, bbVars, cacheVars, fnVars>>

\* The kernel delivers the next event: the control takes its value and the
\* observers run if the value is new, the click handler runs for a click.
\* The step ends where the handler blocks in its remote call, or where it
\* returns without one.
RunBegin ==
    /\ run.pc = "idle"
    /\ run.queue # <<>>
    /\ LET ev == Head(run.queue)
           u1 == CASE ev.kind = "change" -> [ui EXCEPT !.controls[ev.name] = NewValue(impl, ev)]
                   [] ev.kind = "start" -> [ui EXCEPT !.started = TRUE]
                   [] OTHER -> ui
       IN  IF ev.kind = "change" /\ ui.controls[ev.name] = NewValue(impl, ev)
           THEN /\ run' = [run EXCEPT !.queue = Tail(@)]
                /\ steps' = steps + 1
                /\ UNCHANGED <<ui, lastUI, bbVars, now, cache, statsCache, statsMemo, infoMemo, lastC, fnVars>>
           ELSE IF Starts(impl, u1, ev)
           THEN /\ ui' = InFlight(impl, u1, Self).ui
                /\ SetBB(InFlight(impl, u1, Self).bb)
                /\ run' = [run EXCEPT !.pc = "fetching", !.queue = Tail(@), !.ev = ev]
                /\ UNCHANGED <<lastUI, impl, nextId, lastBB, cacheVars, fnVars>>
           ELSE /\ SetUI(Handled(u1, Self, Manager, 0, FALSE, "none"), ev.kind, ev.name)
                /\ run' = [run EXCEPT !.queue = Tail(@)]

\* The remote call returns or raises and the handler runs to its end.
RunComplete ==
    /\ run.pc = "fetching"
    /\ \E out \in HubOutcomes, listed \in ListOutcomes, remote \in Remotes :
        SetUI(CASE impl = "sonnet4" -> refresh_datasets(ui, Self, Manager, ui.controls, listed, remote, now)
                [] run.ev.kind = "change" -> OnChange(impl, ui, Self, Manager, run.ev.name, NewValue(impl, run.ev), out, listed, remote, now)
                [] run.ev.kind = "refresh" -> OnRefresh(impl, ui, Self, Manager, out, listed, remote, now)
                [] OTHER -> OnStart(impl, ui, Self, Manager, out, listed, remote, now),
              run.ev.kind, run.ev.name)
    /\ run' = [run EXCEPT !.pc = "idle"]

\* The remote call of refresh_datasets returns datasets and an exception is
\* raised while update_dataset_display formats them into buttons.
RunDisplayFails ==
    /\ run.pc = "fetching"
    /\ impl = "sonnet4"
    /\ \E listed \in ListOutcomes, remote \in Remotes :
        /\ get_popular_datasets(Manager, ui.controls, now, listed, remote).result # <<>>
        /\ SetUI(refresh_datasets_display_raises(ui, Self, Manager, ui.controls, listed, remote, now), run.ev.kind, run.ev.name)
    /\ run' = [run EXCEPT !.pc = "idle"]

NextRun == RunTrigger \/ RunBegin \/ RunComplete \/ RunDisplayFails

InitRun ==
    /\ impl \in Impls
    /\ buttons = <<>> /\ children = <<>> /\ style = [b \in ButtonIds |-> FALSE]
    /\ position = -1 /\ button = None /\ nextId = 1 /\ lastBB = [op |-> "init"]
    /\ now = Days(100) /\ steps = 0 /\ cache = [k \in Keys |-> None]
    /\ statsCache = NoEntries /\ statsMemo = NoEntries /\ infoMemo = NoEntries
    /\ lastC = [op |-> "init"]
    /\ call = [fn |-> "none"]
    /\ ui = InitialUI(impl)
    /\ lastUI = [op |-> "init"]
    /\ run = [pc |-> "idle", queue |-> <<Event("start")>>, ev |-> Event("start"), late |-> FALSE]

SpecRun == InitRun /\ [][NextRun]_vars

\* The step that ends the handler in progress: RunComplete or RunDisplayFails.
HandlerReturns == run.pc = "fetching" /\ run' = [run EXCEPT !.pc = "idle"]

\* The remote call of a handler in progress returns or raises in the end
\* (it runs to completion or failure), and the handler then runs to its end.
SpecRunLive == InitRun /\ [][NextRun]_vars /\ WF_run(HandlerReturns)

(***************************************************************************)
(* Claims about the ButtonBox (SpecBB)                                     *)
(***************************************************************************)
\* The buttons of the list that carry the selection colour.
Highlighted == {b \in Range(buttons) : style[b]}

\* The selection points at a button of the list: position is its index and
\* button is that object.
Selected(self) == self.button # None /\ self.position \in 0..(Len(self.buttons) - 1) /\ self.buttons[self.position + 1] = self.button[1]

\* C1: in every reachable state at most one button of the list is
\* highlighted, and after a click on a listed button B that button is the
\* only highlighted one, with position and button pointing to it.
C1_SingleSelection ==
    /\ Cardinality(Highlighted) <= 1
    /\ (lastBB.op = "click" /\ lastBB.raised = "none") =>
        /\ Highlighted = {lastBB.b}
        /\ button = Some(lastBB.b)
        /\ position \in 0..(Len(buttons) - 1)
        /\ buttons[position + 1] = lastBB.b

\* A click on B was made while another listed button A was selected and highlighted.
C1_Witness ==
    /\ lastBB.op = "click"
    /\ lastBB.raised = "none"
    /\ Selected(lastBB.pre)
    /\ lastBB.pre.button # Some(lastBB.b)
    /\ lastBB.pre.style[lastBB.pre.button[1]]
    /\ lastBB.pre.button[1] \in Range(buttons)

\* C2 (as claimed): with a button selected at any position p, 0 included,
\* remove() and remove(p) take that button out of the list and leave
\* position = -1 and button = None.
C2_RemoveSelected ==
    (lastBB.op = "remove" /\ Selected(lastBB.pre) /\ lastBB.arg \in {None, Some(lastBB.pre.position)}) =>
        /\ buttons = DropAt(lastBB.pre.buttons, lastBB.pre.position)
        /\ position = -1
        /\ button = None

\* C3: a click event for a button that is not in the list raises and leaves
\* position, button, the highlights and the list as they were.
C3_AbsentClickFails ==
    (lastBB.op = "click" /\ lastBB.b \notin Range(lastBB.pre.buttons)) =>
        /\ lastBB.raised = "IndexError"
        /\ position = lastBB.pre.position
        /\ button = lastBB.pre.button
        /\ style = lastBB.pre.style
        /\ buttons = lastBB.pre.buttons

\* A button that left the list was clicked while another one was selected and highlighted.
C3_Witness ==
    /\ lastBB.op = "click"
    /\ lastBB.b \notin Range(lastBB.pre.buttons)
    /\ Selected(lastBB.pre)
    /\ lastBB.pre.style[lastBB.pre.button[1]]

(***************************************************************************)
(* Claims about the caches (SpecCache)                                     *)
(***************************************************************************)
\* C4 (as claimed): a lookup made while the key's entry is younger than the
\* TTL makes no remote call, and a lookup made when the entry is older than
\* the TTL makes the remote call again, for the query cache and for the
\* per-item cache.
C4_CacheRoundTrip ==
    /\ (lastC.op = "get_popular_datasets" /\ lastC.pre.cache[cache_key(lastC.q[1])] # None) =>
        LET age == lastC.at - lastC.pre.cache[cache_key(lastC.q[1])][1].time
        IN  /\ age < cache_timeout => lastC.listCalls = 0
            /\ age > cache_timeout => lastC.listCalls >= 1
    /\ (lastC.op = "get_dataset_stats" /\ lastC.pre.statsCache[lastC.id] # None) =>
        LET age == lastC.at - lastC.pre.statsCache[lastC.id][1].time
        IN  /\ age < cache_timeout => lastC.infoCalls = <<>>
            /\ age > cache_timeout => lastC.infoCalls = <<lastC.id>>

\* C5 (as claimed): when a remote call made by get_popular_datasets or
\* get_dataset_stats raises, the exception reaches the caller.
C5_FailurePropagates ==
    (lastC.op \in {"get_popular_datasets", "get_dataset_stats"} /\ lastC.remoteRaised) => lastC.raised # "none"

\* The records of every listed dataset, as a manager without memoised stats builds them.
AllStats(listing, t) == [i \in 1..Len(listing) |-> DatasetStats(listing[i], Catalog[listing[i]], t)]

\* C6 (as claimed): the list get_popular_datasets returns after a fetch is
\* the first `limit` elements of the filtered and sorted records of all
\* listed datasets.
C6_TruncateLast ==
    (lastC.op = "get_popular_datasets" /\ lastC.listing # None /\ ~lastC.remoteRaised /\ lastC.pre.statsMemo = NoEntries) =>
        lastC.result = Take(_apply_filters(AllStats(lastC.listing[1], lastC.at), lastC.q[1].time_period, lastC.q[1].sort_by, lastC.at), lastC.q[1].limit)

(***************************************************************************)
(* Claims about the pure functions (SpecFn)                                *)
(***************************************************************************)
\* The value a record is sorted by under a sort key.
SortKey(d, sort_by) ==
    CASE sort_by = "downloads" -> d.downloads
      [] sort_by = "likes" -> d.likes
      [] sort_by = "updated" -> d.updated_at[1]
      [] sort_by = "created" -> d.created_at[1]

Window(date_filter) == CASE date_filter = Some("week") -> Days(7) [] date_filter = Some("month") -> Days(30) [] date_filter = Some("year") -> Days(365)

\* C8 (as claimed): with a date filter active, whatever the sort key, every
\* dataset fetch_datasets returns has its timestamp (created_at when sorting
\* by created_at, last_modified otherwise) present and within
\* [now - window, now].
C8_WindowAlwaysApplied ==
    (call.fn = "fetch_datasets" /\ call.in.date_filter # None) =>
        \A i \in 1..Len(call.out) :
            LET ts == IF call.in.sort_by = "created_at" THEN call.out[i].created_at ELSE call.out[i].last_modified
            IN  ts # None /\ now - Window(call.in.date_filter) <= ts[1] /\ ts[1] <= now

\* The strings a raw field value holds, whatever its representation.
RawStrings(val) == CASE val.k = "str" -> {val.v} [] val.k \in {"list", "dict"} -> {x.v : x \in {y \in Range(val.v) : y.k = "str"}} [] OTHER -> {}

\* The language tags of a dataset description: the lower-cased strings of the
\* first non-empty of language, languages, langs.
LanguageTags(info) ==
    {[i \in 1..Len(w) |-> LowerChar(w[i])] : w \in RawStrings(PyOr(PyOr(CardGet(info.cardData, "language"), CardGet(info.cardData, "languages")), CardGet(info.cardData, "langs")))}

MultiLanguage(info) == Cardinality(LanguageTags(info)) > 1 \/ sMultilingual \in LanguageTags(info)

\* The dataset descriptions a list call chooses from, in order.
Candidates ==
    IF call.fn = "list_all_time" THEN call.in.lst
    ELSE IF call.in.response = None THEN <<>>
    ELSE LET ok == SelectSeq(call.in.response[1], LAMBDA item : item.info # None /\ PyTruthy(PyOr(PyOr(item.repoId, item.id), item.name)))
         IN  [i \in 1..Len(ok) |-> ok[i].info[1]]

\* C9: with language 'multi', list_all_time and list_trending return only
\* datasets that have more than one language tag or the tag 'multilingual';
\* and when no other filter is set and the limit does not cut, they return
\* exactly those, in listing order.
C9_MultiLanguage ==
    (call.fn \in {"list_all_time", "list_trending"} /\ call.in.f.language = sMulti) =>
        /\ \A i \in 1..Len(call.out) : \E c \in Range(Candidates) : c.id = call.out[i].id /\ MultiLanguage(c)
        /\ (call.in.f.search_text = <<>> /\ call.in.f.task = sAny /\ ~call.in.f.require_license /\ ~call.in.f.require_carddata /\ call.in.f.limit >= Len(Candidates)) =>
            [i \in 1..Len(call.out) |-> call.out[i].id] = [i \in 1..Len(SelectSeq(Candidates, MultiLanguage)) |-> SelectSeq(Candidates, MultiLanguage)[i].id]

\* list_all_time with language 'multi' met a dataset with the single tag EN,
\* one with the two spellings en and EN of one tag and one without a card,
\* dropped them and kept a dataset with two languages.
C9_Witness ==
    /\ call.fn = "list_all_time"
    /\ call.in.f.language = sMulti
    /\ Len(call.in.lst) = 3
    /\ \E i \in 1..3 : Cardinality(LanguageTags(call.in.lst[i])) = 1 /\ ~MultiLanguage(call.in.lst[i])
    /\ \E i \in 1..3 : LanguageTags(call.in.lst[i]) = {}
    /\ Len(call.out) = 1
    /\ Cardinality(LanguageTags([cardData |-> call.out[1].card])) = 2

IsLowercase(w) == \A i \in 1..Len(w) : \A u \in DOMAIN UpperChars : w[i] # UpperChars[u]

NoRepetition(out) == \A i, j \in 1..Len(out) : out[i] = out[j] => i = j

\* C10 (as claimed): the tags of every normalised record are lower-case
\* and without repetition, the tags field of DatasetStats included.
C10_AllTagsNormalised ==
    /\ call.fn \in {"_lower_flatten", "extract_languages", "extract_tasks"} => (NoRepetition(call.out) /\ \A i \in 1..Len(call.out) : IsLowercase(call.out[i]))
    /\ call.fn = "DatasetStats" => (NoRepetition(call.out.tags) /\ \A i \in 1..Len(call.out.tags) : IsLowercase(call.out.tags[i]))

\* A raw value that is a single string, a list of strings or a mapping of strings.
StringsOnly(val) == val.k = "str" \/ (val.k \in {"list", "dict"} /\ \A i \in 1..Len(val.v) : val.v[i].k = "str")

\* C10 (amended): whatever the representation of the source value, the
\* list _lower_flatten / extract_languages / extract_tasks return has no
\* upper-case letter and no repetition, and for a string, a list of strings
\* or a mapping of strings it holds exactly the lower-cased strings of the
\* value; the tags field of DatasetStats is the remote record's tags list as
\* received (empty when missing), not normalised.
C10_ExtractNormalises ==
    /\ call.fn \in {"_lower_flatten", "extract_languages", "extract_tasks"} => (NoRepetition(call.out) /\ \A i \in 1..Len(call.out) : IsLowercase(call.out[i]))
    /\ (call.fn = "_lower_flatten" /\ StringsOnly(call.in)) => Range(call.out) = {[i \in 1..Len(w) |-> LowerChar(w[i])] : w \in RawStrings(call.in)}
    /\ call.fn = "DatasetStats" => call.out.tags = (IF call.in.tags = None THEN <<>> ELSE call.in.tags[1])

\* A mapping with the two spellings en and EN of one tag was normalised to the single tag en.
C10_Witness ==
    /\ call.fn = "_lower_flatten"
    /\ call.in = PyDict(<<PyStr(wEn), PyStr(wEN)>>)
    /\ call.out = <<wEn>>

ErrorShown == ui.status = "error" \/ ui.details = "error"

\* The UI shows one of its 'Loading' / 'Fetching' texts.
LoadingShown == ui.status \in {"loading", "fetching"} \/ ui.details = "loading"

\* C12 (as claimed): when the fetch made by the handler of a refresh click,
\* a filter change or an item click fails, the handler returns without an
\* exception and the UI shows an error message and no 'Loading' text.
C12_FailureShown ==
    (lastUI.op \in {"refresh", "change", "select"} /\ lastUI.fetchFailed) =>
        /\ lastUI.escaped = "none"
        /\ ErrorShown
        /\ ~LoadingShown

\* C13 (as claimed): after the handler of a filter change returned from a
\* fetch that did not fail, the list shown was fetched for the values the
\* controls have now, also when a list was shown before the change.
C13_ChangeRequeries ==
    (lastUI.op = "change" /\ ~lastUI.fetchFailed /\ lastUI.escaped = "none") => ui.shownFor = Some(ui.controls)

\* C14: a freshly constructed ButtonBox, with or without initial buttons,
\* has position = -1 and button = None; a click on a button of the list
\* makes that button the selection; clear() leaves position = -1, button =
\* None and an empty list, whatever the selection was.
C14_SelectionMachine ==
    /\ lastBB.op = "init" => (position = -1 /\ button = None /\ Highlighted = {})
    /\ (lastBB.op = "click" /\ lastBB.b \in Range(lastBB.pre.buttons)) =>
        (lastBB.raised = "none" /\ button = Some(lastBB.b) /\ Selected(Self) /\ buttons = lastBB.pre.buttons)
    /\ lastBB.op = "clear" => (position = -1 /\ button = None /\ buttons = <<>> /\ children = <<>>)

\* clear() was called while a button of a list of two was selected.
C14_Witness ==
    /\ lastBB.op = "clear"
    /\ Selected(lastBB.pre)
    /\ Len(lastBB.pre.buttons) >= 2
    /\ button = None

\* C15 (as claimed): a call in which a remote call raised, for the listing
\* or for one of its items, leaves every entry of the query cache as it was,
\* and the memo of get_dataset_stats never holds a None payload.
C15_FailedFetchStoresNothing ==
    /\ (lastC.op \in {"get_popular_datasets", "get_dataset_stats"} /\ lastC.remoteRaised) => cache = lastC.pre.cache
    /\ \A id \in Ids : statsMemo[id] # Some(None)

\* C16 (as claimed): an entry whose age is at most the TTL is served without
\* a remote call, an entry whose age is greater than the TTL is not served,
\* for the query cache and for the per-item cache.
C16_ExpiryBoundary ==
    /\ (lastC.op = "get_popular_datasets" /\ lastC.pre.cache[cache_key(lastC.q[1])] # None) =>
        LET age == lastC.at - lastC.pre.cache[cache_key(lastC.q[1])][1].time
        IN  /\ age <= cache_timeout => (lastC.hit /\ lastC.listCalls = 0)
            /\ age > cache_timeout => ~lastC.hit
    /\ (lastC.op = "get_dataset_stats" /\ lastC.pre.statsCache[lastC.id] # None) =>
        LET age == lastC.at - lastC.pre.statsCache[lastC.id][1].time
        IN  /\ age <= cache_timeout => lastC.infoCalls = <<>>
            /\ age > cache_timeout => lastC.infoCalls # <<>>

\* C17 (as claimed): two argument triples of get_popular_datasets have the
\* same cache key exactly when the triples are equal.
C17_KeyInjective ==
    call.fn = "cache_key" => ((call.out[1] = call.out[2]) <=> (call.in[1] = call.in[2]))

\* C18 (as claimed): _apply_filters leaves the list it is passed as it was and
\* returns a list that is another object, for every time_period, 'all' too.
C18_Pure ==
    call.fn = "_apply_filters" => (call.argument = call.in.datasets /\ ~call.same_object)

\* C19 (as claimed): a call with a limit that is not positive, or with a sort
\* key or time period outside the recognised values, raises instead of
\* returning a list, and a call with a positive limit returns at most limit
\* elements.
C19_Validated ==
    /\ call.fn \in {"list_all_time", "list_trending"} =>
        IF call.in.f.limit <= 0 THEN call.raised # "none" ELSE Len(call.out) <= call.in.f.limit
    /\ (call.fn = "_apply_filters" /\ (call.in.time_period \notin {"all", "7d", "30d", "90d"} \/ call.in.sort_by \notin {"downloads", "likes", "updated", "created"})) =>
        call.raised # "none"

Max(S) == CHOOSE x \in S : \A y \in S : y <= x

Min(S) == CHOOSE x \in S : \A y \in S : x <= y

\* The search text without its leading and trailing whitespace, lower-cased.
Needle(text) ==
    LET solid == {i \in 1..Len(text) : text[i] \notin Whitespace}
    IN  IF solid = {} THEN <<>>
        ELSE [i \in 1..(Max(solid) - Min(solid) + 1) |-> LowerChar(text[Min(solid) + i - 1])]

\* The pretty_name of a dataset's card, '' when there is no card or no name.
DisplayName(info) ==
    IF info.cardData.k = "card" /\ info.cardData.pretty_name.k = "str" THEN info.cardData.pretty_name.v ELSE <<>>

Contains(needle, text) ==
    \E i \in 0..(Len(text) - Len(needle)) : \A j \in 1..Len(needle) : LowerChar(text[i + j]) = needle[j]

SearchMatches(info) ==
    Needle(call.in.f.search_text) # <<>> => (Contains(Needle(call.in.f.search_text), info.id) \/ Contains(Needle(call.in.f.search_text), DisplayName(info)))

\* The other predicates of the call, the search text taken out.
OtherPredicates(info) == Keeps(build_dataset_record(info), [call.in.f EXCEPT !.search_text = <<>>])

SearchExpected == SelectSeq(Candidates, LAMBDA info : SearchMatches(info) /\ OtherPredicates(info))

\* C20: list_all_time and list_trending return, in listing order and cut at
\* limit, exactly the datasets that pass the other predicates and whose
\* lower-cased id or lower-cased pretty_name contains the trimmed, lower-cased
\* search text; an empty or whitespace-only search text excludes nothing.
C20_Search ==
    (call.fn \in {"list_all_time", "list_trending"} /\ call.in.f.limit >= 1) =>
        [i \in 1..Len(call.out) |-> call.out[i].id] = [i \in 1..Min({call.in.f.limit, Len(SearchExpected)}) |-> SearchExpected[i].id]

\* list_all_time searched ' Ab' in three datasets: it kept 'ab' for its id and
\* 'Bc' for its pretty_name 'Ab', and dropped the third.
C20_Witness ==
    /\ call.fn = "list_all_time"
    /\ call.in.f.search_text = <<" ", "A", "b">>
    /\ call.in.f.limit = 3
    /\ Len(call.in.lst) = 3
    /\ [i \in 1..Len(call.out) |-> call.out[i].id] = <<<<"a", "b">>, <<"B", "c">>>>

\* The task tags of a dataset description: the lower-cased strings of the
\* first non-empty of task_categories, task_ids, tasks.
TaskTags(info) ==
    {[i \in 1..Len(w) |-> LowerChar(w[i])] : w \in RawStrings(PyOr(PyOr(CardGet(info.cardData, "task_categories"), CardGet(info.cardData, "task_ids")), CardGet(info.cardData, "tasks")))}

TaskMatches(info) ==
    call.in.f.task # sAny => [i \in 1..Len(call.in.f.task) |-> LowerChar(call.in.f.task[i])] \in TaskTags(info)

\* The other predicates of the call, the task taken out.
PredicatesBesidesTask(info) == Keeps(build_dataset_record(info), [call.in.f EXCEPT !.task = sAny])

TaskExpected == SelectSeq(Candidates, LAMBDA info : TaskMatches(info) /\ PredicatesBesidesTask(info))

\* C21: list_all_time and list_trending return, in listing order and cut at
\* limit, exactly the datasets that pass the other predicates and, unless the
\* task is 'Any', have the lower-cased task among their lower-cased task
\* tags, whether the raw field is a string, a list or a mapping.
C21_TaskFilter ==
    (call.fn \in {"list_all_time", "list_trending"} /\ call.in.f.limit >= 1) =>
        [i \in 1..Len(call.out) |-> call.out[i].id] = [i \in 1..Min({call.in.f.limit, Len(TaskExpected)}) |-> TaskExpected[i].id]

\* list_all_time asked for 'Translation' among three datasets: it kept the
\* one whose task_ids is a mapping with the value 'Translation' and the one
\* whose task_categories is a list, and dropped the one without tasks.
C21_Witness ==
    /\ call.fn = "list_all_time"
    /\ call.in.f.task = wTranslation
    /\ call.in.f.limit = 3
    /\ [i \in 1..Len(call.in.lst) |-> call.in.lst[i].id] = <<<<"B", "c">>, <<"c">>, <<"a", "b">>>>
    /\ call.in.lst[1].cardData.task_ids.k = "dict"
    /\ [i \in 1..Len(call.out) |-> call.out[i].id] = <<<<"B", "c">>, <<"a", "b">>>>

\* C23 (as claimed): in every state the selection pointer agrees with the
\* button list: either position = -1 and button is None, or position is an
\* index of the list and the button at that index is `button`.
C23_PointerConsistent ==
    \/ position = -1 /\ button = None
    \/ position \in 0..(Len(buttons) - 1) /\ button = Some(buttons[position + 1])

\* C24 (as claimed): in every state a button of the list that carries the
\* selection colour is the selected one: position is its index and button
\* is that button.
C24_HighlightIsSelection ==
    \A b \in Highlighted : button = Some(b) /\ position \in 0..(Len(buttons) - 1) /\ buttons[position + 1] = b

\* C25: in every state the children of the container are the button list,
\* element for element and in order; and a remove whose position is
\* negative or not below the length of the list changes neither.
C25_ChildrenAreButtons ==
    /\ children = buttons
    /\ (lastBB.op = "remove" /\ lastBB.arg # None /\ (lastBB.arg[1] < 0 \/ lastBB.arg[1] >= Len(lastBB.pre.buttons))) =>
        (buttons = lastBB.pre.buttons /\ children = lastBB.pre.children)

\* remove(p) was called with p beyond the end of a list of at least two
\* buttons, one of them selected.
C25_Witness ==
    /\ lastBB.op = "remove"
    /\ lastBB.arg # None
    /\ lastBB.arg[1] >= Len(lastBB.pre.buttons)
    /\ Len(lastBB.pre.buttons) >= 2
    /\ Selected(lastBB.pre)
    /\ children = buttons

C26_LeavesLoading ==
    /\ [](impl = "sonnet4" /\ run.pc = "fetching" => ui.status = "loading" /\ ui.refresh_disabled)
    /\ [][(impl = "sonnet4" /\ run.pc = "fetching" /\ run'.pc = "idle") => (ui'.status = "ready" /\ ~ui'.refresh_disabled)]_vars
    /\ (impl = "sonnet4" /\ run.pc = "fetching") ~> (run.pc = "idle" /\ ui.status = "ready" /\ ~ui.refresh_disabled)

\* A refresh_datasets that was started by a click on the refresh button left
\* through its except branch: the error panel is shown, the indicator is
\* 'Ready' and the button is enabled.
C26_Witness ==
    /\ impl = "sonnet4"
    /\ run.pc = "idle"
    /\ lastUI.op = "refresh"
    /\ ui.details = "error"
    /\ ui.status = "ready"
    /\ ~ui.refresh_disabled

====
